---- MODULE Spec2Model ----
(***************************************************************************)
(* A model of the Strava ingestion pipeline of strava_data.py (class       *)
(* Activities and main) and of the re-import script                        *)
(* add_data_from_backup.py.                                                *)
(*                                                                         *)
(* An activity is identified by its id; the upstream service holds the     *)
(* activities 1..upN and an activity's start date is its id.  A table row  *)
(* of an activity is represented by the activity's id, a split row by a    *)
(* record [activity_id, split], so that tables are sequences of rows in    *)
(* append order and duplicates are visible.                                *)
(***************************************************************************)
EXTENDS Integers, Sequences, FiniteSets, TLC

\* ------------------------------------------------------------- bounds
MaxId == 2          \* the upstream holds at most the activities 1..MaxId
MaxRuns == 2        \* Activities objects constructed (runs of main or of a script)
MaxScripts == 1     \* of them runs of a script
MaxImports == 1     \* executions of add_data_from_backup.py
MaxFetches == 2     \* top-level get_activities calls of one script run
MaxDetails == 2     \* get_activity_detail calls of one script run
MaxUpdates == 2     \* update_locations / update_gear calls of one script run
MaxSkew == 1        \* how far below the cursor the list endpoint may still match
PageCap == 1        \* records the list endpoint serves per page at most
MaxTime == 4        \* the clock runs 0..MaxTime
TokenLifetime == 2  \* expires_at of a fresh token is now + TokenLifetime
MaxRefresh == 3     \* token exchanges POSTed at most
TicksPerDay == 2    \* clock ticks of one calendar day
MaxRows == 2        \* rows of a table given to format_activities_df
MaxSegs == 3        \* segments of a list given to the SplitCalculator

\* ------------------------------------------------- program constants
PerPageDefault == 200   \* kwargs.get('per_page', 200)
FirstPage == 1          \* kwargs.get('page', 1)
DetailPause == 2        \* time.sleep(2) after a detail call

\* ------------------------------------------------------------ values
None == <<>>
Some(v) == <<v>>
NaN == <<>>             \* a missing coordinate pair
NoGear == "nan"         \* a missing gear_id

Min(a, b) == IF a < b THEN a ELSE b

RECURSIVE SetMax(_)
SetMax(S) == IF Cardinality(S) = 1 THEN CHOOSE x \in S : TRUE
             ELSE LET x == CHOOSE y \in S : TRUE
                      m == SetMax(S \ {x})
                  IN IF x > m THEN x ELSE m

\* The elements of a set of integers in ascending order.
RECURSIVE Ascending(_)
Ascending(S) == IF S = {} THEN <<>>
                ELSE LET m == SetMax(S) IN Append(Ascending(S \ {m}), m)

Range(s) == {s[i] : i \in 1..Len(s)}

RECURSIVE Flatten(_)
Flatten(ss) == IF ss = <<>> THEN <<>> ELSE Head(ss) \o Flatten(Tail(ss))

RECURSIVE Count(_, _)
Count(s, x) == IF s = <<>> THEN 0
               ELSE (IF Head(s) = x THEN 1 ELSE 0) + Count(Tail(s), x)

\* ---------------------------------------------------- upstream records
\* What the service reports for activity id: start date, start coordinates
\* (two activities share a pair, every third has none), gear (every second
\* activity has none) and the split rows of the detail response.
StartDate(id) == id
StartLatLng(id) == IF id % 3 = 0 THEN NaN ELSE <<(id + 1) \div 2, (id + 1) \div 2>>
GearOf(id) == IF id % 2 = 0 THEN NoGear ELSE IF id % 4 = 1 THEN "g1" ELSE "g2"
SplitsMetric(id) == <<[activity_id |-> id, split |-> 1], [activity_id |-> id, split |-> 2]>>
SplitsStandard(id) == <<[activity_id |-> id, split |-> 1]>>

VARIABLES
  \* the relational store
  activities, splits_miles, splits_km, locations, gear,
  \* files: the backup CSV last written, the saved list pages (concatenated)
  \* and the ids of the saved detail responses
  backup_csv, activity_lists, individual_activities,
  \* the environment: upstream activities 1..upN, list-filter slack
  upN, skew,
  \* the caller: "none" (no object), "main" or "script"; its position
  mode, stage, nextPage, detailIdx, logged_error,
  \* the Activities object
  df, dfCols, df_details, df_km, df_miles,
  latest_activity, existing_locations, existing_gear,
  \* the AuthManager part of the object, the clock and the token endpoint
  now, access_token, headers, token_expires, issued, refreshCalls,
  \* bookkeeping of what happened (read by the properties only)
  runs, scripts, imports, fetches, details, updates, rank,
  runStart, reqFailed, lastSave, reqLog, dfAtCall, geoCalls, gearCalls, refetched,
  lastCheck,
  \* what the loop of main over the activity ids did, in order
  loopLog,
  \* the tables the last format_activities_df was given and how it ended
  lastFormat,
  \* the SplitCalculator: its input, its position, its mile counter, its result
  calc

storeVars == <<activities, splits_miles, splits_km, locations, gear>>
fileVars == <<backup_csv, activity_lists, individual_activities>>
envVars == <<upN, skew>>
callerVars == <<mode, stage, nextPage, detailIdx, logged_error>>
objVars == <<df, dfCols, df_details, df_km, df_miles,
             latest_activity, existing_locations, existing_gear>>
authVars == <<now, access_token, headers, token_expires, issued, refreshCalls, lastCheck>>
countVars == <<runs, scripts, imports, fetches, details, updates, rank>>
histVars == <<runStart, reqFailed, lastSave, reqLog, dfAtCall, geoCalls, gearCalls,
              refetched, loopLog, lastFormat>>
vars == <<storeVars, fileVars, envVars, callerVars, objVars, authVars, countVars, histVars, calc>>

\* ------------------------------------------------------------- Init
NoArg == [kind |-> "none", v |-> 0]
NoSave == [done |-> FALSE, table |-> <<>>, B |-> <<>>, backup |-> FALSE]
NoCheck == [done |-> FALSE, at |-> 0, expiry |-> 0, calls |-> 0, ok |-> TRUE]
NoRun == [acts |-> 0, miles |-> 0, km |-> 0, noNew |-> FALSE]
NoCalc == [null |-> TRUE, segs |-> <<>>, i |-> 1, mile_counter |-> 1, markers |-> <<>>,
           done |-> TRUE]
NoFormat == [done |-> FALSE, df |-> <<>>, details |-> <<>>, raised |-> FALSE, cols |-> <<>>]
Coords == {StartLatLng(i) : i \in 1..MaxId} \ {NaN}
GearIds == {GearOf(i) : i \in 1..MaxId} \ {NoGear}

\* The fields of a freshly constructed or discarded Activities object.
ObjectReset ==
  /\ df' = <<>> /\ dfCols' = "none" /\ df_details' = <<>>
  /\ df_km' = <<>> /\ df_miles' = <<>>
  /\ latest_activity' = None /\ existing_locations' = {} /\ existing_gear' = {}
  /\ access_token' = 0 /\ headers' = 0 /\ token_expires' = 0
  /\ lastCheck' = NoCheck

RunReset ==
  /\ nextPage' = 0 /\ detailIdx' = 0 /\ logged_error' = FALSE
  /\ fetches' = 0 /\ details' = 0 /\ updates' = 0 /\ rank' = 0
  /\ runStart' = NoRun /\ reqFailed' = FALSE /\ lastSave' = NoSave
  /\ reqLog' = <<>> /\ dfAtCall' = <<>> /\ loopLog' = <<>>

\* Nothing running: no object, an empty store, no upstream activity.
Quiet ==
  /\ activities = <<>> /\ splits_miles = <<>> /\ splits_km = <<>>
  /\ locations = <<>> /\ gear = <<>>
  /\ backup_csv = <<>> /\ activity_lists = <<>> /\ individual_activities = {}
  /\ upN = 0 /\ skew \in 0..MaxSkew
  /\ mode = "none" /\ stage = "idle" /\ nextPage = 0 /\ detailIdx = 0
  /\ logged_error = FALSE
  /\ df = <<>> /\ dfCols = "none" /\ df_details = <<>> /\ df_km = <<>> /\ df_miles = <<>>
  /\ latest_activity = None /\ existing_locations = {} /\ existing_gear = {}
  /\ now = 0 /\ access_token = 0 /\ headers = 0 /\ token_expires = 0
  /\ issued = [access_token |-> 0, expires_at |-> 0] /\ refreshCalls = 0
  /\ lastCheck = NoCheck
  /\ runs = 0 /\ scripts = 0 /\ imports = 0 /\ fetches = 0 /\ details = 0 /\ updates = 0 /\ rank = 0
  /\ runStart = NoRun /\ reqFailed = FALSE /\ lastSave = NoSave
  /\ reqLog = <<>> /\ dfAtCall = <<>>
  /\ geoCalls = [c \in Coords |-> 0] /\ gearCalls = [g \in GearIds |-> 0]
  /\ refetched = {} /\ loopLog = <<>> /\ lastFormat = NoFormat

Init == Quiet /\ calc = NoCalc

\* ------------------------------------------------------ AuthManager
\* refresh_api_connection: one POST to the token endpoint; a rejected exchange
\* fails the assert, an accepted one returns the new token and its expires_at.
RefreshData(ok) ==
  IF ok THEN [access_token |-> issued.access_token + 1, expires_at |-> now + TokenLifetime]
  ELSE issued

refresh_api_connection(ok) ==
  /\ refreshCalls' = refreshCalls + 1
  /\ issued' = RefreshData(ok)

\* get_latest_activity: MAX(start_date) of the stored activities, NULL when none.
MaxStartDate(rows) ==
  IF rows = <<>> THEN None ELSE Some(SetMax({StartDate(i) : i \in Range(rows)}))

\* The end of a run: the object and everything the run owned is discarded.
EndRun ==
  /\ mode' = "none" /\ stage' = "idle"
  /\ ObjectReset /\ RunReset

\* The caller stays where it is but for its stage.
Stay == UNCHANGED <<mode, nextPage, detailIdx, logged_error>>

\* The exception logged and the pipeline carried on.
RaiseMutant ==
  /\ stage' = (IF mode = "main" THEN "format" ELSE "close") /\ logged_error' = (mode = "main")
  /\ nextPage' = 0 /\ detailIdx' = 0
  /\ UNCHANGED mode

\* An exception leaves the call: main logs it and goes to its finally clause,
\* any other caller dies with it; either way only close remains.
Raise ==
  /\ stage' = "close" /\ logged_error' = (mode = "main")
  /\ nextPage' = 0 /\ detailIdx' = 0
  /\ UNCHANGED mode

\* The stage of main after a step; a script is free to make its next call.
After(next) == IF mode = "main" THEN next ELSE "free"

\* A script calls the methods in the order of the pipeline, skipping any and
\* repeating the fetch, the detail calls and the resolvers: r is the call's place.
Script(r) == mode = "script" /\ stage = "free" /\ rank <= r
ScriptOnce(r) == mode = "script" /\ stage = "free" /\ rank < r
Ranked(r) == rank' = IF mode = "script" THEN r ELSE rank

\* What the properties remember of the last fetch and the last save is dropped
\* by the next call.
ForgetFetch == reqLog' = <<>> /\ dfAtCall' = <<>>
ForgetSave == lastSave' = NoSave

\* Athlete(...) and Activities.__init__ (lines 80-97) of a run of main ("main")
\* or of another caller of the class ("script").
Construct(m, ok) ==
  /\ mode = "none" /\ runs < MaxRuns /\ refreshCalls < MaxRefresh
  /\ m = "script" => scripts < MaxScripts
  /\ runs' = runs + 1
  /\ scripts' = IF m = "script" THEN scripts + 1 ELSE scripts
  /\ refresh_api_connection(ok)
  /\ IF ok
     THEN /\ access_token' = issued'.access_token
          /\ headers' = issued'.access_token
          /\ token_expires' = issued'.expires_at
          /\ latest_activity' = MaxStartDate(activities)
          /\ existing_locations' = Range(locations)
          /\ existing_gear' = Range(gear)
          /\ mode' = m
          /\ stage' = IF m = "main" THEN "get_activities" ELSE "free"
          /\ runStart' = [acts |-> Len(activities), miles |-> Len(splits_miles),
                          km |-> Len(splits_km),
                          noNew |-> (1..upN) \subseteq Range(activities)]
          /\ UNCHANGED <<df, dfCols, df_details, df_km, df_miles,
                         nextPage, detailIdx, logged_error>>
     ELSE \* the assert of line 112 fails in __init__, outside main's try
          /\ UNCHANGED <<callerVars, objVars, access_token, headers, token_expires,
                         runStart>>
  /\ UNCHANGED <<storeVars, fileVars, envVars, now, lastCheck, imports, fetches,
                 details, updates, rank, reqFailed, lastSave, reqLog, dfAtCall,
                 geoCalls, gearCalls, refetched, loopLog, lastFormat, calc>>

\* Activities.close, at the end of main or of the script.
Close ==
  /\ mode # "none" /\ stage \in {"close", "free"}
  /\ EndRun
  /\ UNCHANGED <<storeVars, fileVars, envVars, now, issued, refreshCalls,
                 runs, scripts, imports, geoCalls, gearCalls, refetched, lastFormat, calc>>

\* A new activity is recorded upstream between two runs.
NewUpstreamActivity ==
  /\ mode = "none" /\ upN < MaxId
  /\ upN' = upN + 1
  /\ UNCHANGED <<storeVars, fileVars, skew, callerVars, objVars, authVars,
                 countVars, histVars, calc>>

\* The clock.
Tick ==
  /\ now < MaxTime
  /\ now' = now + 1
  /\ UNCHANGED <<storeVars, fileVars, envVars, callerVars, objVars,
                 access_token, headers, token_expires, issued, refreshCalls, lastCheck,
                 countVars, histVars, calc>>

\* The comparison of line 124 made non-strict.
TokenExpiredMutant(t, expires) == t >= expires

\* Line 124: the token has expired.
TokenExpired(t, expires) == t > expires

\* check_expiry (lines 124-125), called by a script between its other calls;
\* the value refresh_api_connection returns is not used.
CheckExpiry(ok) ==
  /\ mode = "script" /\ stage = "free"
  /\ IF TokenExpired(now, token_expires)
     THEN /\ refreshCalls < MaxRefresh
          /\ refresh_api_connection(ok)
          /\ IF ok THEN Stay /\ UNCHANGED stage ELSE Raise
     ELSE /\ ok
          /\ UNCHANGED <<issued, refreshCalls, callerVars>>
  /\ lastCheck' = [done |-> TRUE, at |-> now, expiry |-> token_expires,
                   calls |-> refreshCalls' - refreshCalls, ok |-> ok]
  /\ UNCHANGED <<storeVars, fileVars, envVars, objVars, now, access_token, headers,
                 token_expires, countVars, histVars, calc>>

\* -------------------------------------------------- ActivityFetcher
\* datetime.timestamp of the naive values of lines 183-194: a 'yyyy-mm-dd' string
\* or a date is its day's midnight, and a naive value is read as local time, which
\* lies skew ticks behind the stored UTC value.
ToTimestamp(x) ==
  CASE x.kind = "str" -> x.v * TicksPerDay - skew
    [] x.kind = "date" -> x.v * TicksPerDay - skew
    [] x.kind = "datetime" -> x.v - skew
    [] OTHER -> x.v

Number(n) == [kind |-> "number", v |-> n]

NoKwargs == [after |-> <<>>, before |-> <<>>, per_page |-> <<>>, page |-> <<>>]

\* kwargs.get('after', self.latest_activity): the cursor is the datetime the
\* store returns for MAX(start_date).
DefaultAfter ==
  IF latest_activity = None THEN NoArg
  ELSE [kind |-> "datetime", v |-> latest_activity[1]]

\* Lines 179-196: the params of the list request of one get_activities call.
ListParams(kw) ==
  LET after0 == IF kw.after = <<>> THEN DefaultAfter ELSE kw.after[1]
      before0 == IF kw.before = <<>> THEN NoArg ELSE kw.before[1]
      after1 == IF after0.kind \in {"str", "datetime", "date"}
                THEN Number(ToTimestamp(after0)) ELSE after0
      before1 == IF before0.kind = "str" THEN Number(ToTimestamp(before0)) ELSE before0
      after2 == IF before0.kind \in {"datetime", "date"}
                THEN Number(ToTimestamp(before0)) ELSE after1
  IN [after |-> after2, before |-> before1,
      per_page |-> IF kw.per_page = <<>> THEN PerPageDefault ELSE kw.per_page[1],
      page |-> IF kw.page = <<>> THEN FirstPage ELSE kw.page[1]]

\* The list endpoint: the activities after and before the bounds given as epoch
\* numbers, oldest first, cut into pages of min(per_page, PageCap) records.
Matches(i, p) ==
  /\ (p.after.kind = "number" => StartDate(i) > p.after.v)
  /\ (p.before.kind = "number" => StartDate(i) < p.before.v)

ListResponse(p) ==
  LET all == Ascending({i \in 1..upN : Matches(i, p)})
      size == Min(p.per_page, PageCap)
      lo == (p.page - 1) * size + 1
      hi == Min(p.page * size, Len(all))
  IN IF lo > hi THEN <<>> ELSE SubSeq(all, lo, hi)

\* Line 207: the page has results.
HasResults(data) == Len(data) > 0

\* A page skipped.
NextPageMutant(page) == page + 2

\* Line 210: the page of the recursive call.
NextPage(page) == page + 1

\* One invocation of get_activities (lines 179-210): the request, the assert,
\* the optional JSON file, and for a page with results the concat and the
\* recursive call that is then pending.
get_activities(kw, save_json, ok, log) ==
  LET p == ListParams(kw)
      data == ListResponse(p)
      entry == [kw |-> kw, after |-> p.after, before |-> p.before,
                per_page |-> p.per_page, page |-> p.page, ok |-> ok,
                data |-> IF ok THEN data ELSE <<>>]
  IN /\ reqLog' = Append(log, entry)
     /\ IF ~ok
        THEN /\ reqFailed' = TRUE
             /\ Raise
             /\ UNCHANGED <<df, dfCols, activity_lists>>
        ELSE /\ reqFailed' = reqFailed
             /\ activity_lists' = IF save_json THEN activity_lists \o data
                                  ELSE activity_lists
             /\ IF HasResults(data)
                THEN /\ df' = df \o data
                     /\ dfCols' = "raw"
                     /\ stage' = "list"
                     /\ nextPage' = NextPage(p.page)
                ELSE /\ stage' = After("ids")
                     /\ nextPage' = 0
                     /\ UNCHANGED <<df, dfCols>>
             /\ UNCHANGED <<mode, detailIdx, logged_error>>
     /\ ForgetSave
     /\ UNCHANGED <<storeVars, backup_csv, individual_activities, envVars,
                    df_details, df_km, df_miles, latest_activity,
                    existing_locations, existing_gear, authVars,
                    runs, scripts, imports, details, updates,
                    runStart, geoCalls, gearCalls, refetched, loopLog, lastFormat, calc>>

\* The kwargs a script passes; main passes none.
AfterArgs == {<<>>, <<NoArg>>}
BeforeArgs == {<<>>, <<[kind |-> "str", v |-> 1]>>, <<[kind |-> "datetime", v |-> 2]>>}
ScriptKwargs == [after : AfterArgs, before : BeforeArgs,
                 per_page : {<<>>, <<1>>}, page : {<<>>, <<2>>}]

\* A caller's call of get_activities.
GetActivities(kw, save_json, ok) ==
  /\ \/ mode = "main" /\ stage = "get_activities" /\ kw = NoKwargs /\ ~save_json
     \/ Script(1) /\ fetches < MaxFetches
  /\ fetches' = fetches + 1
  /\ Ranked(1)
  /\ dfAtCall' = df
  /\ get_activities(kw, save_json, ok, <<>>)

\* The recursive call of line 210: only page is passed on.
GetActivitiesRecurse(ok) ==
  /\ stage = "list"
  /\ UNCHANGED <<fetches, rank, dfAtCall>>
  /\ get_activities([NoKwargs EXCEPT !.page = <<nextPage>>], FALSE, ok, reqLog)

\* --------------------------------------------------- DetailEnricher
\* get_activity_ids (lines 218-221): the id column of df, or None when df has
\* neither an id nor an activity_id column.
get_activity_ids == IF dfCols = "none" THEN None ELSE Some(df)

\* main, line 461: the loop over get_activity_ids(); iterating None raises
\* TypeError inside the try.
MainActivityIds ==
  /\ mode = "main" /\ stage = "ids"
  /\ IF get_activity_ids = None
     THEN Raise
     ELSE /\ stage' = IF Len(df) = 0 THEN "format" ELSE "detail"
          /\ detailIdx' = 1
          /\ UNCHANGED <<mode, nextPage, logged_error>>
  /\ ForgetFetch
  /\ UNCHANGED <<storeVars, fileVars, envVars, objVars, authVars, countVars,
                 runStart, reqFailed, lastSave, geoCalls, gearCalls, refetched, loopLog, lastFormat, calc>>

\* get_activity_detail (lines 235-255) for one id: the request, the assert, the
\* optional JSON file, one row of details and the split rows of the activity.
get_activity_detail(id, save_json, ok) ==
  /\ IF ~ok
     THEN /\ reqFailed' = TRUE
          /\ UNCHANGED <<individual_activities, df_details, df_km, df_miles>>
     ELSE /\ reqFailed' = reqFailed
          /\ individual_activities' = IF save_json THEN individual_activities \cup {id}
                                      ELSE individual_activities
          /\ df_details' = Append(df_details, id)
          /\ df_km' = df_km \o SplitsMetric(id)
          /\ df_miles' = df_miles \o SplitsStandard(id)
  /\ details' = details + 1
  /\ ForgetFetch /\ ForgetSave
  /\ UNCHANGED <<storeVars, backup_csv, activity_lists, envVars, df, dfCols,
                 latest_activity, existing_locations, existing_gear, authVars,
                 runs, scripts, imports, fetches, updates, runStart, geoCalls, gearCalls,
                 refetched, lastFormat, calc>>

\* The pause left out of the loop.
LoopPauseMutant == <<>>

\* Line 463: time.sleep(2).
LoopPause == <<[e |-> "sleep", secs |-> DetailPause]>>

\* Line 462: the statements of the loop body up to the pause; the call raises
\* when its request fails.
LoopCall(id) == <<[e |-> "get_activity_detail", id |-> id]>>

\* main, lines 461-463: the detail call of the next id, then the pause.
MainDetail(ok) ==
  /\ mode = "main" /\ stage = "detail"
  /\ get_activity_detail(df[detailIdx], FALSE, ok)
  /\ loopLog' = loopLog \o LoopCall(df[detailIdx]) \o (IF ok THEN LoopPause ELSE <<>>)
  /\ UNCHANGED rank
  /\ IF ~ok
     THEN Raise
     ELSE /\ stage' = IF detailIdx = Len(df) THEN "format" ELSE "detail"
          /\ detailIdx' = detailIdx + 1
          /\ UNCHANGED <<mode, nextPage, logged_error>>

\* A script's detail call for an id of get_activity_ids().
ScriptDetail(id, save_json, ok) ==
  /\ Script(2) /\ details < MaxDetails
  /\ id \in Range(df)
  /\ Ranked(2)
  /\ get_activity_detail(id, save_json, ok)
  /\ UNCHANGED loopLog
  /\ IF ~ok THEN Raise ELSE UNCHANGED callerVars

\* ------------------------------------- LocationResolver, GearResolver
\* drop_duplicates: the first occurrence of every value, in order.
RECURSIVE DropDuplicates(_)
DropDuplicates(s) ==
  IF s = <<>> THEN <<>>
  ELSE LET init == DropDuplicates(SubSeq(s, 1, Len(s) - 1))
           x == s[Len(s)]
       IN IF x \in Range(init) THEN init ELSE Append(init, x)

\* Lines 303-307: the coordinate pairs of df that are not among the locations
\* loaded when the object was constructed.
NewLocations ==
  LET pairs == DropDuplicates([j \in 1..Len(df) |-> StartLatLng(df[j])])
      known == SelectSeq(pairs, LAMBDA ll : ll # NaN)
  IN SelectSeq(known, LAMBDA ll : ll \notin existing_locations)

\* Lines 264-267: likewise for the gear ids.
NewGear ==
  LET ids == DropDuplicates([j \in 1..Len(df) |-> GearOf(df[j])])
      known == SelectSeq(ids, LAMBDA gr : gr # NoGear)
  IN SelectSeq(known, LAMBDA gr : gr \notin existing_gear)

\* The first n of the keys are looked up and stored; with n below their number
\* the next lookup is made and fails its assert.
Called(keys, n) == Range(SubSeq(keys, 1, Min(n + 1, Len(keys))))

\* update_locations (lines 303-309) with add_location (lines 319-340).
UpdateLocations(n) ==
  /\ Script(3) /\ updates < MaxUpdates
  /\ Ranked(3)
  /\ updates' = updates + 1
  /\ IF dfCols = "none"
     THEN \* no start_latitude column
          /\ n = 0
          /\ Raise
          /\ UNCHANGED <<locations, geoCalls>>
     ELSE /\ n <= Len(NewLocations)
          /\ geoCalls' = [c \in DOMAIN geoCalls |->
                            geoCalls[c] + IF c \in Called(NewLocations, n) THEN 1 ELSE 0]
          /\ locations' = locations \o SubSeq(NewLocations, 1, n)
          /\ IF n < Len(NewLocations) THEN Raise ELSE UNCHANGED callerVars
  /\ ForgetFetch /\ ForgetSave
  /\ UNCHANGED <<activities, splits_miles, splits_km, gear, fileVars, envVars,
                 objVars, authVars, runs, scripts, imports, fetches, details,
                 runStart, reqFailed, gearCalls, refetched, loopLog, lastFormat, calc>>

\* update_gear (lines 264-269) with add_gear (lines 278-294).
UpdateGear(n) ==
  /\ Script(4) /\ updates < MaxUpdates
  /\ Ranked(4)
  /\ updates' = updates + 1
  /\ IF dfCols = "none"
     THEN \* no gear_id column
          /\ n = 0
          /\ Raise
          /\ UNCHANGED <<gear, gearCalls, refetched>>
     ELSE /\ n <= Len(NewGear)
          /\ gearCalls' = [g \in DOMAIN gearCalls |->
                             gearCalls[g] + IF g \in Called(NewGear, n) THEN 1 ELSE 0]
          /\ gear' = gear \o SubSeq(NewGear, 1, n)
          /\ refetched' = refetched \cup (Called(NewGear, n) \cap Range(gear))
          /\ IF n < Len(NewGear) THEN Raise ELSE UNCHANGED callerVars
  /\ ForgetFetch /\ ForgetSave
  /\ UNCHANGED <<activities, splits_miles, splits_km, locations, fileVars, envVars,
                 objVars, authVars, runs, scripts, imports, fetches, details,
                 runStart, reqFailed, geoCalls, loopLog, lastFormat, calc>>

\* -------------------------------------------------------- Normalizer
\* Line 392, df.merge(df_details, how='left', on='activity_id'): every row of df
\* once per matching row of details, and once when none matches.
RECURSIVE LeftMerge(_, _)
LeftMerge(left, right) ==
  IF left = <<>> THEN <<>>
  ELSE LET k == Count(right, Head(left))
       IN [j \in 1..(IF k = 0 THEN 1 ELSE k) |-> Head(left)]
          \o LeftMerge(Tail(left), right)

\* format_activities_df (lines 365-421) on a table whose upstream fields are all
\* present: the raw columns are needed (KeyError otherwise), the rename makes id
\* activity_id, and the merge needs the activity_id column of df_details.
FormatActivitiesDf ==
  /\ \/ mode = "main" /\ stage = "format"
     \/ ScriptOnce(5)
  /\ Ranked(5)
  /\ IF dfCols # "raw"
     THEN Raise /\ UNCHANGED <<df, dfCols>>
     ELSE IF df_details = <<>>
     THEN Raise /\ dfCols' = "formatted" /\ UNCHANGED df
     ELSE /\ df' = LeftMerge(df, df_details)
          /\ dfCols' = "formatted"
          /\ stage' = After("save_activities")
          /\ Stay
  /\ ForgetFetch /\ ForgetSave
  /\ UNCHANGED <<storeVars, fileVars, envVars, df_details, df_km, df_miles,
                 latest_activity, existing_locations, existing_gear, authVars,
                 runs, scripts, imports, fetches, details, updates,
                 runStart, reqFailed, geoCalls, gearCalls, refetched, loopLog, lastFormat, calc>>

\* ------------------------------------------- Normalizer, field by field
\* A DataFrame built by json_normalize and concat is held as the sequence of its
\* records, a record giving every field a cell: the key's value, or CellAbsent
\* when the response had no such key.  The frame has a column for a field when
\* some record has the key, and the records without it hold NaN there.
Cell(k, v) == [k |-> k, v |-> v]
CellAbsent == Cell("absent", <<>>)
CellNaN == Cell("nan", <<>>)          \* np.nan
CellNone == Cell("none", <<>>)        \* a JSON null
Num(n) == Cell("num", <<n>>)
List(l) == Cell("list", l)
Str(t) == Cell("str", t)              \* Str(<<>>) is ''

HasColumn(rows, f) == \E j \in 1..Len(rows) : rows[j][f] # CellAbsent
At(r, f) == IF r[f] = CellAbsent THEN CellNaN ELSE r[f]

\* len(x) of lines 371-372 raises TypeError on a float and on None.
LenRaises(x) == x.k \notin {"list", "str"}

\* Lines 371-372: lambda x: x[i] if len(x) == 2 else np.nan (i counted from 1).
EndCoord(x, i) == IF Len(x.v) = 2 THEN Num(x.v[i]) ELSE CellNaN

\* Line 393: replace('', np.nan).
ReplaceEmpty(x) == IF x = Str(<<>>) THEN CellNaN ELSE x

\* Lines 394-416, the columns kept of the fixed list, in its order.
Cols == <<"activity_id", "activity_description", "distance_meters",
          "end_latitude", "end_longitude", "calories", "gear_id">>

\* The detail columns of a row of df that no row of df_details matches.
NoDetail == [id |-> CellNaN, description |-> CellNaN, calories |-> CellNaN]

\* The row of the result for a row of df and a row of df_details (lines 365-421):
\* the derived columns, the renames, and NaN for the columns of the list that
\* the frame lacks (lines 417-419).
OutRow(r, d) ==
  [activity_id |-> r.id,
   activity_description |-> ReplaceEmpty(At(d, "description")),
   distance_meters |-> At(r, "distance"),
   end_latitude |-> EndCoord(At(r, "end_latlng"), 1),
   end_longitude |-> EndCoord(At(r, "end_latlng"), 2),
   calories |-> At(d, "calories"),
   gear_id |-> At(r, "gear_id")]

\* Line 392, the left merge on activity_id, row by row.
RECURSIVE MergeDetails(_, _)
MergeDetails(rows, dets) ==
  IF rows = <<>> THEN <<>>
  ELSE LET r == Head(rows)
           ds == SelectSeq(dets, LAMBDA d : d.id = r.id)
       IN (IF ds = <<>> THEN <<OutRow(r, NoDetail)>>
           ELSE [j \in 1..Len(ds) |-> OutRow(r, ds[j])])
          \o MergeDetails(Tail(rows), dets)

Raised(e) == [raised |-> TRUE, error |-> e, cols |-> <<>>, table |-> <<>>]

\* format_activities_df (lines 365-421) on the frames df and df_details: the
\* column reads that raise KeyError, the len that raises TypeError, and the
\* table of the fixed columns otherwise.
format_activities_df(rows, dets) ==
  IF ~HasColumn(rows, "distance") THEN Raised("KeyError: distance")
  ELSE IF ~HasColumn(rows, "end_latlng") THEN Raised("KeyError: end_latlng")
  ELSE IF \E j \in 1..Len(rows) : LenRaises(At(rows[j], "end_latlng"))
  THEN Raised("TypeError: len")
  ELSE IF dets = <<>> THEN Raised("KeyError: activity_id")
  ELSE IF ~HasColumn(dets, "description")
  THEN Raised("KeyError: activity_description")
  ELSE [raised |-> FALSE, error |-> "", cols |-> Cols,
        table |-> MergeDetails(rows, dets)]

\* What the list endpoint and the detail endpoint may report of activity id.
EndLatLngs == {CellAbsent, CellNone, List(<<>>), List(<<1>>), List(<<1, 2>>),
               List(<<1, 2, 3>>)}
ListRecords(id) == [id : {Num(id)}, distance : {CellAbsent, Num(5)},
                    end_latlng : EndLatLngs, gear_id : {CellAbsent, Str(<<1>>)}]
DetailRecords(id) == [id : {Num(id)},
                      description : {CellAbsent, CellNone, Str(<<>>), Str(<<1>>)},
                      calories : {CellAbsent, Num(100)}]

\* The tables of n fetched activities: df and df_details.
ListTables(n) ==
  {t \in [1..n -> UNION {ListRecords(i) : i \in 1..n}] :
     \A i \in 1..n : t[i] \in ListRecords(i)}
DetailTables(n) ==
  {t \in [1..n -> UNION {DetailRecords(i) : i \in 1..n}] :
     \A i \in 1..n : t[i] \in DetailRecords(i)}

\* main, line 464, on the tables of a run that fetched and enriched.
FormatRecords ==
  /\ mode = "main" /\ stage = "format"
  /\ LET out == format_activities_df(df, df_details)
     IN /\ lastFormat' = [done |-> TRUE, df |-> df, details |-> df_details,
                          raised |-> out.raised, cols |-> out.cols]
        /\ IF out.raised
           THEN Raise /\ UNCHANGED <<df, dfCols>>
           ELSE /\ df' = out.table
                /\ dfCols' = "formatted"
                /\ stage' = "save_activities"
                /\ Stay
  /\ UNCHANGED <<storeVars, fileVars, envVars, df_details, df_km, df_miles,
                 latest_activity, existing_locations, existing_gear, authVars,
                 countVars, runStart, reqFailed, lastSave, reqLog, dfAtCall,
                 geoCalls, gearCalls, refetched, loopLog, calc>>

\* ------------------------------------------------------------ Writer
\* Line 431, pd.merge(df, current, how='left', on='activity_id', indicator=True).
RECURSIVE MergeIndicator(_, _)
MergeIndicator(left, current) ==
  IF left = <<>> THEN <<>>
  ELSE LET k == Count(current, Head(left))
       IN (IF k = 0 THEN <<[activity_id |-> Head(left), _merge |-> "left_only"]>>
           ELSE [j \in 1..k |-> [activity_id |-> Head(left), _merge |-> "both"]])
          \o MergeIndicator(Tail(left), current)

\* The filter of line 432 left out.
KeepRowMutant(r) == TRUE

\* Line 432: the rows kept.
KeepRow(r) == r._merge = "left_only"

\* Line 433: the indicator column is dropped.
DropMerge(rows) == [j \in 1..Len(rows) |-> rows[j].activity_id]

\* The backup written before the filter.
BackupRowsMutant(fetched, kept) == fetched

\* Lines 435-436: the rows written to the backup file.
BackupRows(fetched, kept) == kept

\* save_activities (lines 430-436).
SaveActivities(backup) ==
  /\ \/ mode = "main" /\ stage = "save_activities" /\ backup
     \/ ScriptOnce(6)
  /\ Ranked(6)
  /\ IF dfCols # "formatted"
     THEN \* no activity_id column to merge on
          /\ Raise
          /\ UNCHANGED <<activities, backup_csv, df>>
          /\ ForgetSave
     ELSE LET current == activities
              kept == DropMerge(SelectSeq(MergeIndicator(df, current), KeepRow))
          IN /\ df' = kept
             /\ activities' = activities \o kept
             /\ backup_csv' = IF backup THEN BackupRows(df, kept) ELSE backup_csv
             /\ lastSave' = [done |-> TRUE, table |-> activities, B |-> df,
                             backup |-> backup]
             /\ stage' = After("save_splits")
             /\ Stay
  /\ ForgetFetch
  /\ UNCHANGED <<splits_miles, splits_km, locations, gear, activity_lists,
                 individual_activities, envVars, dfCols, df_details, df_km, df_miles,
                 latest_activity, existing_locations, existing_gear, authVars,
                 runs, scripts, imports, fetches, details, updates,
                 runStart, reqFailed, geoCalls, gearCalls, refetched, loopLog, lastFormat, calc>>

\* save_splits (lines 444-448): every split row collected by the detail calls
\* of the run; the heartrate column of an empty table does not exist.
SaveSplits ==
  /\ \/ mode = "main" /\ stage = "save_splits"
     \/ ScriptOnce(7)
  /\ Ranked(7)
  /\ IF df_miles = <<>> \/ df_km = <<>>
     THEN Raise /\ UNCHANGED <<splits_miles, splits_km>>
     ELSE /\ splits_miles' = splits_miles \o df_miles
          /\ splits_km' = splits_km \o df_km
          /\ stage' = After("close")
          /\ Stay
  /\ ForgetFetch /\ ForgetSave
  /\ UNCHANGED <<activities, locations, gear, fileVars, envVars, objVars, authVars,
                 runs, scripts, imports, fetches, details, updates,
                 runStart, reqFailed, geoCalls, gearCalls, refetched, loopLog, lastFormat, calc>>

\* ------------------------------------------ add_data_from_backup.py
\* The script between two runs: the saved detail responses (lines 15-30), the
\* saved list pages (lines 35-39), the merge (line 67) and the appends (lines
\* 94-100).  With no saved file of either kind it raises before any append.
ImportBackup ==
  /\ mode = "none" /\ imports < MaxImports
  /\ activity_lists # <<>> /\ individual_activities # {}
  /\ imports' = imports + 1
  /\ LET saved == Ascending(individual_activities)
     IN /\ activities' = activities \o LeftMerge(activity_lists, saved)
        /\ splits_miles' = splits_miles
                           \o Flatten([j \in 1..Len(saved) |-> SplitsStandard(saved[j])])
        /\ splits_km' = splits_km
                        \o Flatten([j \in 1..Len(saved) |-> SplitsMetric(saved[j])])
  /\ UNCHANGED <<locations, gear, fileVars, envVars, callerVars, objVars, authVars,
                 runs, scripts, fetches, details, updates, rank, histVars, calc>>

\* --------------------------------------------------- SplitCalculator
\* Exact fractions in lowest terms: distances over 1609 and seconds over 60.
RECURSIVE GCD(_, _)
GCD(a, b) == IF b = 0 THEN a ELSE GCD(b, a % b)

Rat(n, d) == LET g == GCD(n, d) IN [num |-> n \div g, den |-> d \div g]
RatAdd(a, b) == Rat(a.num * b.den + b.num * a.den, a.den * b.den)
RatDiv(a, b) == Rat(a.num * b.den, a.den * b.num)
RatEq(a, b) == a = b
RatLess(a, b) == a.num * b.den < b.num * a.den

MileMeters == 1609        \* fraction = distance / 1609
PartialBelow == 1600      \* a segment below 1600 meters is a partial mile
SecondsPerMinute == 60

\* The moving time of a segment in minutes.
Minutes(seg) == Rat(seg.time, SecondsPerMinute)

\* The counter advanced only past a segment that recorded a marker.
IncrementMileMutant(mile_counter, recorded) ==
  IF recorded THEN mile_counter + 1 ELSE mile_counter

\* The counter after a segment, whatever the branch.
IncrementMile(mile_counter, recorded) == mile_counter + 1

\* The marker and pace a segment records at the given counter, if any.
SegmentMarker(seg, mile_counter) ==
  IF seg.distance < PartialBelow
  THEN LET fraction == Rat(seg.distance, MileMeters)
       IN IF fraction.num > 0
          THEN <<[marker |-> RatAdd(Rat(mile_counter - 1, 1), fraction),
                  pace |-> RatDiv(Minutes(seg), fraction)]>>
          ELSE <<>>
  ELSE <<[marker |-> Rat(mile_counter, 1), pace |-> Minutes(seg)]>>

\* The mapping from marker to pace with one more entry: an existing marker keeps
\* its place and takes the new pace.
Put(mapping, entry) ==
  IF \E j \in 1..Len(mapping) : RatEq(mapping[j].marker, entry.marker)
  THEN [j \in 1..Len(mapping) |->
          IF RatEq(mapping[j].marker, entry.marker) THEN entry ELSE mapping[j]]
  ELSE Append(mapping, entry)

\* One pass of the loop over the segments.
SplitStep ==
  /\ ~calc.done /\ ~calc.null /\ calc.i <= Len(calc.segs)
  /\ LET seg == calc.segs[calc.i]
         rec == SegmentMarker(seg, calc.mile_counter)
     IN calc' = [calc EXCEPT
                   !.markers = IF rec = <<>> THEN @ ELSE Put(@, rec[1]),
                   !.mile_counter = IncrementMile(@, rec # <<>>),
                   !.i = @ + 1]
  /\ UNCHANGED <<storeVars, fileVars, envVars, callerVars, objVars, authVars,
                 countVars, histVars>>

\* The markers are returned: after the last segment, or at once for a null input.
SplitReturn ==
  /\ ~calc.done /\ (calc.null \/ calc.i > Len(calc.segs))
  /\ calc' = [calc EXCEPT !.done = TRUE]
  /\ UNCHANGED <<storeVars, fileVars, envVars, callerVars, objVars, authVars,
                 countVars, histVars>>

\* The segments a list may hold and the lists of up to MaxSegs of them.
Segments == [distance : {0, 800, 1599, 1600, 1609}, time : {200, 420}]
SegmentLists == UNION {[1..n -> Segments] : n \in 0..MaxSegs}

\* ------------------------------------------------------------ specs
Next ==
  \/ \E m \in {"main", "script"}, ok \in BOOLEAN : Construct(m, ok)
  \/ \E kw \in ScriptKwargs, sj \in BOOLEAN, ok \in BOOLEAN : GetActivities(kw, sj, ok)
  \/ \E ok \in BOOLEAN : GetActivitiesRecurse(ok)
  \/ MainActivityIds
  \/ \E ok \in BOOLEAN : MainDetail(ok)
  \/ \E id \in 1..MaxId, sj \in BOOLEAN, ok \in BOOLEAN : ScriptDetail(id, sj, ok)
  \/ \E n \in 0..MaxId : UpdateLocations(n)
  \/ \E n \in 0..MaxId : UpdateGear(n)
  \/ FormatActivitiesDf
  \/ \E backup \in BOOLEAN : SaveActivities(backup)
  \/ SaveSplits
  \/ Close
  \/ NewUpstreamActivity
  \/ ImportBackup

\* The pipeline: runs of main and of scripts, the re-import, the upstream.
Spec == Init /\ [][Next]_vars

AuthNext ==
  \/ \E ok \in BOOLEAN : Construct("script", ok)
  \/ Tick
  \/ \E ok \in BOOLEAN : CheckExpiry(ok)
  \/ Close

\* The AuthManager of a script's object under a running clock.
AuthSpec == Init /\ [][AuthNext]_vars

\* The pipeline with its control flow running on: the recursive call of
\* get_activities that is pending is made.
LiveSpec == Spec /\ WF_vars(\E ok \in BOOLEAN : GetActivitiesRecurse(ok))

\* A run of main that has fetched and enriched n activities of an empty store,
\* about to format them.
FormatInit ==
  \E n \in 1..MaxRows :
    /\ activities = <<>> /\ splits_miles = <<>> /\ splits_km = <<>>
    /\ locations = <<>> /\ gear = <<>>
    /\ backup_csv = <<>> /\ activity_lists = <<>> /\ individual_activities = {}
    /\ upN = n /\ skew = 0
    /\ mode = "main" /\ stage = "format" /\ nextPage = 0 /\ detailIdx = n + 1
    /\ logged_error = FALSE
    /\ df \in ListTables(n) /\ dfCols = "raw"
    /\ df_details \in DetailTables(n)
    /\ df_km = Flatten([i \in 1..n |-> SplitsMetric(i)])
    /\ df_miles = Flatten([i \in 1..n |-> SplitsStandard(i)])
    /\ latest_activity = None /\ existing_locations = {} /\ existing_gear = {}
    /\ now = 0 /\ access_token = 1 /\ headers = 1 /\ token_expires = TokenLifetime
    /\ issued = [access_token |-> 1, expires_at |-> TokenLifetime] /\ refreshCalls = 1
    /\ lastCheck = NoCheck
    /\ runs = 1 /\ scripts = 0 /\ imports = 0 /\ fetches = 1 /\ details = n
    /\ updates = 0 /\ rank = 0
    /\ runStart = NoRun /\ reqFailed = FALSE /\ lastSave = NoSave
    /\ reqLog = <<>> /\ dfAtCall = <<>>
    /\ geoCalls = [c \in Coords |-> 0] /\ gearCalls = [g \in GearIds |-> 0]
    /\ refetched = {}
    /\ loopLog = Flatten([i \in 1..n |-> LoopCall(i) \o LoopPause])
    /\ lastFormat = NoFormat /\ calc = NoCalc

FormatNext == FormatRecords

\* format_activities_df on every table of up to MaxRows activities.
FormatSpec == FormatInit /\ [][FormatNext]_vars

\* The SplitCalculator given a list of segments or a null input.
SplitInit ==
  /\ Quiet /\ skew = 0
  /\ \E null \in BOOLEAN, segs \in SegmentLists :
       /\ null => segs = <<>>
       /\ calc = [null |-> null, segs |-> segs, i |-> 1, mile_counter |-> 1,
                  markers |-> <<>>, done |-> FALSE]

SplitNext == SplitStep \/ SplitReturn

\* The SplitCalculator on every list of up to MaxSegs segments.
SplitSpec == SplitInit /\ [][SplitNext]_vars

\* ----------------------------------------------------------- claims
NoDuplicates(s) == \A i, j \in 1..Len(s) : i # j => s[i] # s[j]

\* C1: save_activities appends to the activities table exactly the rows of the
\* batch whose activity_id is not among the rows persisted before the call, in
\* the batch's order, and nothing else.
C1_SaveAppendsDifference ==
  lastSave.done =>
    activities = lastSave.table
                 \o SelectSeq(lastSave.B, LAMBDA id : id \notin Range(lastSave.table))

\* A save whose batch holds a persisted id and a new one.
C1_Witness ==
  /\ lastSave.done
  /\ \E id \in Range(lastSave.B) : id \in Range(lastSave.table)
  /\ \E id \in Range(lastSave.B) : id \notin Range(lastSave.table)
  /\ Len(activities) > Len(lastSave.table)

\* C2: a second run of main (with only runs of main before it), started when
\* every upstream activity is already persisted, appends no row to activities,
\* splits_miles or splits_km.
C2_SecondRunAppendsNothing ==
  (mode = "main" /\ runs >= 2 /\ scripts = 0 /\ imports = 0 /\ runStart.noNew) =>
    /\ Len(activities) = runStart.acts
    /\ Len(splits_miles) = runStart.miles
    /\ Len(splits_km) = runStart.km

\* C3: no two rows of the activities table have the same activity_id.
C3_ActivityIdsUnique == NoDuplicates(activities)

\* C4: check_expiry makes exactly one token exchange when the time is past the
\* stored expiry and none when it is at or before it.
C4_RefreshIffExpired ==
  lastCheck.done =>
    lastCheck.calls = IF lastCheck.at > lastCheck.expiry THEN 1 ELSE 0

\* A check_expiry past the expiry that exchanged the token.
C4_Witness == lastCheck.done /\ lastCheck.ok /\ lastCheck.at > lastCheck.expiry /\ lastCheck.calls = 1

\* C5: after check_expiry has exchanged an expired token, the object's access
\* token, Authorization header and expiry are those of the new token.
C5_RefreshedTokenIsStored ==
  (lastCheck.done /\ lastCheck.calls = 1 /\ lastCheck.ok) =>
    /\ access_token = issued.access_token
    /\ headers = issued.access_token
    /\ token_expires = issued.expires_at

\* C6: no coordinate pair is reverse-geocoded more than once.
C6_GeocodedAtMostOnce == \A c \in DOMAIN geoCalls : geoCalls[c] <= 1

\* C7: the pages of one get_activities retrieval are requested with page numbers
\* increasing by one from the starting page, a further page only after a page
\* with results; the records of every page are appended to df; the retrieval goes
\* on exactly while the last page had results; and it makes at most one request
\* per upstream activity and one more, so that it ends.
PagesInOrder ==
  LET n == Len(reqLog)
  IN n > 0 =>
       /\ \A j \in 1..n : reqLog[j].page = reqLog[1].page + (j - 1)
       /\ \A j \in 1..(n - 1) : reqLog[j].ok /\ Len(reqLog[j].data) > 0
       /\ df = dfAtCall \o Flatten([j \in 1..n |-> reqLog[j].data])
       /\ (stage = "list") <=> (reqLog[n].ok /\ Len(reqLog[n].data) > 0)
       /\ n <= upN + 1

C7_Pagination == []PagesInOrder /\ ((stage = "list") ~> (stage # "list"))

\* A retrieval of several pages that ended on an empty page.
C7_Witness ==
  /\ Len(reqLog) >= 3
  /\ reqLog[Len(reqLog)].ok /\ reqLog[Len(reqLog)].data = <<>>
  /\ stage # "list"
  /\ Len(df) >= 2

\* C8: when a list or detail request of a run of main fails, the run is aborted
\* and nothing is appended to activities, splits_miles or splits_km.
C8_FailedRequestWritesNothing ==
  (mode = "main" /\ reqFailed) =>
    /\ stage = "close" /\ logged_error
    /\ Len(activities) = runStart.acts
    /\ Len(splits_miles) = runStart.miles
    /\ Len(splits_km) = runStart.km

\* A run of main aborted by a failed request after activities were fetched.
C8_Witness ==
  mode = "main" /\ reqFailed /\ stage = "close" /\ Len(df) > 0 /\ df_details # <<>>

\* C9: the backup file written by save_activities holds exactly the rows the call
\* appended to the activities table, none of them with an id persisted before.
C9_BackupHoldsAppendedRows ==
  (lastSave.done /\ lastSave.backup) =>
    /\ backup_csv = SubSeq(activities, Len(lastSave.table) + 1, Len(activities))
    /\ \A j \in 1..Len(backup_csv) : backup_csv[j] \notin Range(lastSave.table)

\* A backup written by a save whose batch also held a persisted id.
C9_Witness ==
  /\ lastSave.done /\ lastSave.backup /\ backup_csv # <<>>
  /\ \E id \in Range(lastSave.B) : id \in Range(lastSave.table)

\* C10: the gear table holds at most one row per gear_id, and gear metadata is
\* fetched only for ids without a stored row.
C10_GearUniqueFetchedIfNew == NoDuplicates(gear) /\ refetched = {}

\* C11: once the enrichment loop of a run of main is over, every detail call it
\* made has a check_expiry call right before it or after it (before the next
\* detail call).
C11_DetailCallsCheckExpiry ==
  (mode = "main" /\ stage \in {"format", "save_activities", "save_splits"}) =>
    \A j \in 1..Len(loopLog) :
      loopLog[j].e = "get_activity_detail" =>
        \E k \in {j - 1, j + 1, j + 2} \cap (1..Len(loopLog)) :
          loopLog[k].e = "check_expiry"

\* C12: between any two consecutive detail calls of the loop of main there is
\* exactly one pause, of 2 seconds.
C12_PauseBetweenDetailCalls ==
  \A i, j \in 1..Len(loopLog) :
    ( /\ i < j
      /\ loopLog[i].e = "get_activity_detail" /\ loopLog[j].e = "get_activity_detail"
      /\ \A k \in (i + 1)..(j - 1) : loopLog[k].e # "get_activity_detail" )
    => /\ Cardinality({k \in (i + 1)..(j - 1) : loopLog[k].e = "sleep"}) = 1
       /\ \A k \in (i + 1)..(j - 1) : loopLog[k].e = "sleep" => loopLog[k].secs = 2

\* A run of main that made two detail calls.
C12_Witness ==
  /\ mode = "main"
  /\ Cardinality({j \in 1..Len(loopLog) : loopLog[j].e = "get_activity_detail"}) >= 2

\* C13: whatever optional fields the list and detail responses hold (the distance
\* every activity has being there, and no field null), format_activities_df completes and leaves a
\* table with exactly the fixed columns in their fixed order, with the null marker
\* in every column whose upstream field is absent.
C13_FormatKeepsFixedColumns ==
  ( /\ lastFormat.done
    /\ \A j \in 1..Len(lastFormat.df) :
         /\ lastFormat.df[j].distance # CellAbsent
         /\ lastFormat.df[j].end_latlng # CellNone ) =>
    /\ ~lastFormat.raised
    /\ lastFormat.cols = <<"activity_id", "activity_description", "distance_meters",
                           "end_latitude", "end_longitude", "calories", "gear_id">>
    /\ Len(df) = Len(lastFormat.df)
    /\ \A j \in 1..Len(df) :
         /\ DOMAIN df[j] = Range(lastFormat.cols)
         /\ lastFormat.df[j].distance = CellAbsent => df[j].distance_meters = CellNaN
         /\ lastFormat.df[j].gear_id = CellAbsent => df[j].gear_id = CellNaN
         /\ lastFormat.details[j].description = CellAbsent
              => df[j].activity_description = CellNaN
         /\ lastFormat.details[j].calories = CellAbsent => df[j].calories = CellNaN

\* C14: on a table with the other columns it reads, format_activities_df does
\* not raise and sets end_latitude and end_longitude to the two components of
\* end_latlng when it has exactly two, and to null in every other case.
C14_EndCoordinates ==
  ( /\ lastFormat.done
    /\ HasColumn(lastFormat.df, "distance")
    /\ HasColumn(lastFormat.details, "description") ) =>
    /\ ~lastFormat.raised
    /\ \A j \in 1..Len(df) :
         LET x == lastFormat.df[j].end_latlng
         IN IF x.k = "list" /\ Len(x.v) = 2
            THEN df[j].end_latitude = Num(x.v[1]) /\ df[j].end_longitude = Num(x.v[2])
            ELSE df[j].end_latitude = CellNaN /\ df[j].end_longitude = CellNaN

\* C15: when a run of main has written its activities, every start coordinate
\* pair and every gear id of the fetched activities has been resolved, that is,
\* has a row in locations or gear.
C15_ResolvedBeforeWrite ==
  (mode = "main" /\ lastSave.done) =>
    \A id \in Range(lastSave.B) :
      /\ StartLatLng(id) # NaN => StartLatLng(id) \in Range(locations)
      /\ GearOf(id) # NoGear => GearOf(id) \in Range(gear)

\* C16: the SplitCalculator ends on every list of segments and on a null input,
\* and returns exactly these markers, in segment order: for the k-th segment the
\* marker k with its time in minutes as pace when its distance is at least 1600,
\* the marker (k - 1) + distance/1609 with pace minutes/(distance/1609) when its
\* distance is above 0 and below 1600, and none when its distance is 0; the
\* markers are strictly increasing, and an empty or null input yields none.
C16_SplitMarkers ==
  calc.done =>
    LET n == Len(calc.segs)
        expected ==
          Flatten([k \in 1..n |->
            LET d == calc.segs[k].distance
                t == calc.segs[k].time
            IN IF d >= 1600 THEN <<[marker |-> Rat(k, 1), pace |-> Rat(t, 60)]>>
               ELSE IF d > 0
               THEN <<[marker |-> Rat((k - 1) * 1609 + d, 1609),
                       pace |-> Rat(t * 1609, 60 * d)]>>
               ELSE <<>>])
        m == calc.markers
    IN /\ Len(m) = Len(expected)
       /\ \A j \in 1..Len(m) : /\ RatEq(m[j].marker, expected[j].marker)
                               /\ RatEq(m[j].pace, expected[j].pace)
       /\ \A j \in 1..(Len(m) - 1) : RatLess(m[j].marker, m[j + 1].marker)
       /\ (calc.null \/ n = 0) => m = <<>>

\* A list with a zero-distance segment between a partial and a whole one, done.
C16_Witness ==
  /\ calc.done /\ ~calc.null /\ Len(calc.segs) = 3
  /\ calc.segs[1].distance = 800 /\ calc.segs[2].distance = 0
  /\ calc.segs[3].distance = 1609
  /\ Len(calc.markers) = 2

\* C17: after runs of main only, no split row is stored twice: an activity that
\* is fetched again while already persisted gets no second set of rows in
\* splits_miles or splits_km.
C17_SplitsOncePerActivity ==
  (scripts = 0 /\ imports = 0) =>
    NoDuplicates(splits_miles) /\ NoDuplicates(splits_km)

\* C18: every page request of one get_activities retrieval carries the after,
\* before and per_page values of the first request.
C18_PagesKeepArguments ==
  \A j \in 1..Len(reqLog) :
    /\ reqLog[j].after = reqLog[1].after
    /\ reqLog[j].before = reqLog[1].before
    /\ reqLog[j].per_page = reqLog[1].per_page

\* C19: the first request of a get_activities call given a datetime or a date as
\* before sends its timestamp as the before parameter, and as after the value
\* derived from the after argument or else from the stored cursor.
C19_BeforeIsSentAsBefore ==
  Len(reqLog) > 0 =>
    LET q == reqLog[1]
        a == IF q.kw.after = <<>> THEN DefaultAfter ELSE q.kw.after[1]
    IN (q.kw.before # <<>> /\ q.kw.before[1].kind \in {"datetime", "date"}) =>
         /\ q.before = Number(ToTimestamp(q.kw.before[1]))
         /\ q.after = IF a.kind \in {"str", "datetime", "date"}
                      THEN Number(ToTimestamp(a)) ELSE a

\* C20: a run of main whose list fetch returned no activity (the frame never got
\* a column) goes on past get_activity_ids without logging an error and
\* persists nothing.
C20_EmptyFetchEndsQuietly ==
  ( /\ mode = "main" /\ ~reqFailed /\ dfCols = "none"
    /\ stage \notin {"get_activities", "list", "ids"} ) =>
    /\ ~logged_error
    /\ Len(activities) = runStart.acts
    /\ Len(splits_miles) = runStart.miles
    /\ Len(splits_km) = runStart.km


====
